---- MODULE Spec2Model ----
(***************************************************************************)
(* Thai ID card OCR service: the two FastAPI variants                      *)
(*   OCR/ocr_support_file_heic.py     (Tesseract backend, HEIC staging)    *)
(*   OCR/ocr_thai_id_card_easyocr.py  (EasyOCR reader pool)                *)
(* modelled as one state machine.  The detection models and the OCR        *)
(* backends are external: their outputs are nondeterministic inputs.       *)
(* Text is a sequence of one-character strings.                            *)
(***************************************************************************)
EXTENDS Integers, Sequences, FiniteSets, TLC

VARIABLES
    variant,         \* which of the two programs is deployed
    models_loaded,   \* outcome of the module-level try/except that loads the models
    fs,              \* temp_uploads/: a function from the names of the files that exist to their content
    output_logs,     \* output_logs/: the debug artifacts written so far
    pc,              \* each request's position in process_thai_id
    file,            \* each request's UploadFile
    cropped_card,    \* run_ocr_pipeline locals, per request
    text_fields,
    raw_text_data,
    final_entities,
    ocr_calls,       \* the (label, language) calls the OCR backend has received
    exc,             \* the exception in flight / bound to `e` in the except clause
    response,        \* what the caller of process_thai_id gets
    fn_name,         \* pure-function harness: the function under study,
    fn_arg,          \*   its argument,
    fn_ret           \*   and its return value once called

vars == <<variant, models_loaded, fs, output_logs, pc, file, cropped_card, text_fields, raw_text_data, final_entities, ocr_calls, exc, response, fn_name, fn_arg, fn_ret>>

\* ------------------------------------------------------------------ bounds

MaxRaw == 3
MaxConf == 2
MaxIdLen == 4
MaxNameLen == 7
NumRequests == 2

\* ------------------------------------------------------------------ text

Digits == {"0", "1", "2", "3", "4", "5", "6", "7", "8", "9"}
Whitespace == {" ", "\n", "\f", "\t"}

IsDigit(c) == c \in Digits
IsSpace(c) == c \in Whitespace

RECURSIVE lstrip(_)
lstrip(s) ==
    IF s # <<>> /\ IsSpace(Head(s)) THEN lstrip(Tail(s)) ELSE s

RECURSIVE rstrip(_)
rstrip(s) ==
    IF s # <<>> /\ IsSpace(s[Len(s)]) THEN rstrip(SubSeq(s, 1, Len(s) - 1)) ELSE s

\* str.strip()
strip(s) == rstrip(lstrip(s))

\* str.split(): the maximal runs of non-whitespace, in order
RECURSIVE split_from(_, _, _)
split_from(s, cur, acc) ==
    IF s = <<>>
    THEN IF cur = <<>> THEN acc ELSE Append(acc, cur)
    ELSE IF IsSpace(Head(s))
         THEN split_from(Tail(s), <<>>, IF cur = <<>> THEN acc ELSE Append(acc, cur))
         ELSE split_from(Tail(s), Append(cur, Head(s)), acc)

split(s) == split_from(s, <<>>, <<>>)

\* sep.join(parts)
RECURSIVE join(_, _)
join(sep, parts) ==
    IF parts = <<>> THEN <<>>
    ELSE IF Len(parts) = 1 THEN parts[1]
    ELSE parts[1] \o sep \o join(sep, Tail(parts))

\* the characters re.sub(r'[^\d\s]', '', .) leaves in place
IdCardKeeps(c) == IsDigit(c) \/ IsSpace(c)

\* the characters re.sub(r'[\n\x0c]', '', .) leaves in place
CleanedKeeps(c) == c \notin {"\n", "\f"}

\* ------------------------------------------------------------------ dicts

EmptyDict == <<>>

\* ------------------------------------------------------------------ map_entities

\* alternative cleanup that drops whitespace as well: re.sub(r'[^\d]', '', text)
IdCardDigitsOnly(text) == SelectSeq(text, IsDigit)

\* re.sub(r'[^\d\s]', '', text).strip()
IdCardValue(text) == strip(SelectSeq(text, IdCardKeeps))

\* alternative that takes parts[2] alone
LastNameFirstTokenOnly(parts) == parts[3]

\* " ".join(parts[2:])
LastName(parts) == join(<<" ">>, SubSeq(parts, 3, Len(parts)))

EnNameEntities(text) ==
    LET parts == split(text)
    IN  IF Len(parts) >= 3
        THEN ("en_prefix" :> parts[1]) @@ ("en_firstname" :> parts[2]) @@ ("en_lastname" :> LastName(parts))
        ELSE ("en_name_raw" :> text)

\* map_entities of ocr_support_file_heic.py; later assignments override earlier ones
map_entities_heic(raw) ==
    LET e1 == IF "id_card" \in DOMAIN raw THEN ("id_card" :> IdCardValue(raw["id_card"])) ELSE EmptyDict
        e2 == IF "en_name" \in DOMAIN raw THEN EnNameEntities(raw["en_name"]) ELSE EmptyDict
        e3 == [label \in (DOMAIN raw) \ {"id_card", "en_name"} |-> strip(raw[label])]
    IN  e3 @@ (e2 @@ e1)

\* map_entities of ocr_thai_id_card_easyocr.py
map_entities_easyocr(raw) == raw

map_entities(v, raw) == IF v = "heic" THEN map_entities_heic(raw) ELSE map_entities_easyocr(raw)

\* ------------------------------------------------------------------ detect_text_fields

\* a box is <<x1, y1, x2, y2>>; a detection is [box, label, confidence]

\* alternative test with >=, under which the last of tied detections wins
ReplacesOnTie(confidence, kept) == confidence >= kept

\* confidence > best_detections[label]['confidence']: the test that lets a later detection of a label replace the kept one
Replaces(confidence, kept) == confidence > kept

IndexOfLabel(dets, label) ==
    IF \E i \in 1..Len(dets) : dets[i].label = label
    THEN CHOOSE i \in 1..Len(dets) : dets[i].label = label
    ELSE 0

\* best_detections after the first n raw detections, in dict insertion order
RECURSIVE best_detections(_, _)
best_detections(raw, n) ==
    IF n = 0 THEN <<>>
    ELSE LET prev == best_detections(raw, n - 1)
             d == raw[n]
             i == IndexOfLabel(prev, d.label)
         IN  IF i = 0 THEN Append(prev, d)
             ELSE IF Replaces(d.confidence, prev[i].confidence) THEN [prev EXCEPT ![i] = d]
             ELSE prev

\* key=lambda d: (d['box'][1], d['box'][0])
SortKey(d) == <<d.box[2], d.box[1]>>

\* alternative comparison on the top edge alone
KeyLETopEdgeOnly(k1, k2) == k1[1] <= k2[1]

\* tuple comparison k1 <= k2
KeyLE(k1, k2) == k1[1] < k2[1] \/ (k1[1] = k2[1] /\ k1[2] <= k2[2])

\* stable insertion: d goes after every element whose key is <= its own
InsertSorted(sorted_, d) ==
    LET before == {i \in 0..Len(sorted_) : \A j \in 1..i : KeyLE(SortKey(sorted_[j]), SortKey(d))}
        k == CHOOSE i \in before : \A j \in before : j <= i
    IN  SubSeq(sorted_, 1, k) \o <<d>> \o SubSeq(sorted_, k + 1, Len(sorted_))

\* sorted(seq, key=SortKey): stable
RECURSIVE sorted(_)
sorted(seq) ==
    IF seq = <<>> THEN <<>>
    ELSE InsertSorted(sorted(SubSeq(seq, 1, Len(seq) - 1)), seq[Len(seq)])

\* the first component of detect_text_fields' return value
detect_text_fields(raw) == sorted(best_detections(raw, Len(raw)))

\* ------------------------------------------------------------------ read_text_from_fields

th_labels(v) ==
    IF v = "heic"
    THEN {"prefix_name_th", "first_name_th", "last_name_th"}
    ELSE {"prefix_name_th", "first_name_th", "last_name_th", "date_of_birth_th", "date_of_expity_th", "religion"}

en_labels(v) ==
    IF v = "heic"
    THEN {"prefix_name_en", "first_name_en", "last_name_en"}
    ELSE {"prefix_name_en", "first_name_en", "last_name_en", "date_of_birth_en", "date_of_expity_en"}

\* the language given to the backend: Tesseract's lang= ('tha', 'eng', 'tha+eng'),
\* or the languages of the EasyOCR reader chosen (['th'], ['en'], ['th', 'en'])
Lang(v, label) ==
    IF label \in th_labels(v) THEN "th"
    ELSE IF label \in en_labels(v) THEN "en"
    ELSE "th+en"

Min(a, b) == IF a <= b THEN a ELSE b
Max(a, b) == IF a >= b THEN a ELSE b

\* number of elements of img[box[1]:box[3], box[0]:box[2]] for an h x w x 3 image
\* and non-negative coordinates (a slice is cut at the array's end)
RegionSize(h, w, box) ==
    LET rows == Max(0, Min(box[4], h) - Min(box[2], h))
        cols == Max(0, Min(box[3], w) - Min(box[1], w))
    IN  rows * cols * 3

\* the text stored for one field from the backend's output, <<>> when nothing is stored
\*   heic:    image_to_string(...).strip(), then re.sub(r'[\n\x0c]', '', .) if non-empty
\*   easyocr: " ".join(result) if result is non-empty; `out` is the list readtext returns
FieldText(v, out) ==
    IF v = "heic"
    THEN LET extracted_text == strip(out)
         IN  IF extracted_text # <<>>
             THEN [stored |-> TRUE, text |-> SelectSeq(extracted_text, CleanedKeeps)]
             ELSE [stored |-> FALSE, text |-> <<>>]
    ELSE IF out # <<>>
         THEN [stored |-> TRUE, text |-> join(<<" ">>, out)]
         ELSE [stored |-> FALSE, text |-> <<>>]

\* read_text_from_fields after the first n fields: the dict built and the backend calls made;
\* outs[i] is what the backend returns for field i
RECURSIVE read_text_from_fields(_, _, _, _, _)
read_text_from_fields(v, crop, fields, outs, n) ==
    IF n = 0 THEN [extracted_data |-> EmptyDict, calls |-> <<>>]
    ELSE LET prev == read_text_from_fields(v, crop, fields, outs, n - 1)
             field == fields[n]
         IN  IF RegionSize(crop.h, crop.w, field.box) > 0
             THEN LET t == FieldText(v, outs[n])
                  IN  [extracted_data |-> IF t.stored THEN (field.label :> t.text) @@ prev.extracted_data ELSE prev.extracted_data,
                       calls |-> Append(prev.calls, <<field.label, Lang(v, field.label)>>)]
             ELSE prev

\* ------------------------------------------------------------------ crop_card

\* np.argmax: the first index of the maximum
argmax(confs) ==
    CHOOSE i \in 1..Len(confs) :
        /\ \A j \in 1..Len(confs) : confs[j] <= confs[i]
        /\ \A j \in 1..(i - 1) : confs[j] < confs[i]

\* crop_card on a decoded h x w image for which the card detector returns `boxes`:
\* the crop (h = w = 0 stands for None) ; the results object is never None here
crop_card(h, w, boxes) ==
    IF Len(boxes) = 0 THEN [h |-> 0, w |-> 0]
    ELSE LET best_box == boxes[argmax([i \in 1..Len(boxes) |-> boxes[i].confidence])].box
             y1 == Max(0, best_box[2])
             y2 == Min(h, best_box[4])
             x1 == Max(0, best_box[1])
             x2 == Min(w, best_box[3])
         IN  IF Max(0, y2 - y1) * Max(0, x2 - x1) * 3 > 0
             THEN [h |-> y2 - y1, w |-> x2 - x1]
             ELSE [h |-> 0, w |-> 0]

\* ------------------------------------------------------------------ requests, files, exceptions

Requests == 1..NumRequests
Variants == {"heic", "easyocr"}

Filenames == {"card.jpg", "card.heic", "temp_image.png"}

\* what the uploaded bytes are: an image cv2.imread decodes, a HEIF image, or neither
Formats == {"raster", "heif", "garbage"}

Files == [filename : Filenames, format : Formats]
NoUpload == [filename |-> "none", format |-> "none"]

\* shape of the decoded image handed to the card detector
ImgShape == [h |-> 4, w |-> 6]

NoCrop == [owner |-> 0, h |-> 0, w |-> 0]

NoExc == [type |-> "none", status_code |-> 0, detail |-> "none"]
HTTPException(status_code, detail) == [type |-> "HTTPException", status_code |-> status_code, detail |-> detail]
OtherException(detail) == [type |-> "Exception", status_code |-> 0, detail |-> detail]

NoResponse == [status_code |-> 0, returned |-> FALSE, body |-> EmptyDict]

Exists(path) == path \in DOMAIN fs
Written(path, content) == (path :> content) @@ fs
Removed(path) == [q \in (DOMAIN fs) \ {path} |-> fs[q]]

\* file.filename.lower().endswith(('.heic', '.heif'))
IsHeicName(filename) == filename \in {"card.heic"}

\* alternative staging path that is unique to the request
UniqueTempFilePath(r) == "temp_image_" \o ToString(r) \o ".png"

\* the path the pipeline reads:
\*   heic:    os.path.join(temp_dir, "temp_image.png")
\*   easyocr: os.path.join(temp_dir, file.filename)
temp_file_path(r) == IF variant = "heic" THEN "temp_image.png" ELSE file[r].filename

\* heic: os.path.join(temp_dir, file.filename)
original_upload_path(r) == file[r].filename

\* alternative cleanup that removes temp_file_path alone
CleanupTempOnly(r) == <<temp_file_path(r)>>

\* the paths the finally clause removes, in order
cleanup_paths(r) ==
    IF variant = "heic" THEN <<temp_file_path(r), original_upload_path(r)>> ELSE <<temp_file_path(r)>>

\* the status of the HTTPException the except clauses raise for the caught exception e:
\*   heic:    except Exception -> 500
\*   easyocr: except HTTPException -> raise e ; except Exception -> 500
HandlerStatus(v, e) ==
    IF v = "easyocr" /\ e.type = "HTTPException" THEN e.status_code ELSE 500

ExistsPc == <<"finally_exists_1", "finally_exists_2">>
RemovePc == <<"finally_remove_1", "finally_remove_2">>

\* where the finally clause goes after its k-th path
AfterCleanup(r, k) == IF k < Len(cleanup_paths(r)) THEN ExistsPc[k + 1] ELSE "done"

\* os.path.splitext(os.path.basename(image_path))[0]
base_filename(image_path) ==
    CASE image_path \in {"card.jpg", "card.heic"} -> "card"
      [] image_path = "temp_image.png" -> "temp_image"
      [] OTHER -> image_path

\* os.path.join(output_dir, f"{base_filename}_{kind}")
Artifact(image_path, kind) == <<base_filename(image_path), kind>>

request_vars == <<file, cropped_card, text_fields, raw_text_data, final_entities, ocr_calls, exc, response>>
pipeline_locals == <<cropped_card, text_fields, raw_text_data, final_entities, ocr_calls>>
static_vars == <<variant, models_loaded>>
harness_vars == <<fn_name, fn_arg, fn_ret>>

Raise(r, e) ==
    /\ exc' = [exc EXCEPT ![r] = e]
    /\ pc' = [pc EXCEPT ![r] = "except"]

\* ------------------------------------------------------------------ process_thai_id

\* a request arrives: the handler is entered with its UploadFile
Begin(r, uploads) ==
    /\ pc[r] = "idle"
    /\ \E f \in uploads : file' = [file EXCEPT ![r] = f]
    /\ pc' = [pc EXCEPT ![r] = "save"]
    /\ UNCHANGED <<static_vars, harness_vars, fs, output_logs, pipeline_locals, exc, response>>

\* with open(..., "wb") as buffer: shutil.copyfileobj(file.file, buffer)
SaveUpload(r) ==
    /\ pc[r] = "save"
    /\ IF variant = "heic"
       THEN /\ fs' = Written(original_upload_path(r), [owner |-> r, format |-> file[r].format])
            /\ pc' = [pc EXCEPT ![r] = "stage"]
       ELSE /\ fs' = Written(temp_file_path(r), [owner |-> r, format |-> file[r].format])
            /\ pc' = [pc EXCEPT ![r] = "pipeline"]
    /\ UNCHANGED <<static_vars, harness_vars, output_logs, request_vars>>

\* heic: the HEIC conversion, or shutil.copy(original_upload_path, temp_file_path)
StageImage(r) ==
    /\ pc[r] = "stage"
    /\ LET src == original_upload_path(r)
           dst == temp_file_path(r)
       IN  IF IsHeicName(file[r].filename)
           THEN IF Exists(src) /\ fs[src].format = "heif"
                THEN /\ fs' = Written(dst, [owner |-> fs[src].owner, format |-> "raster"])
                     /\ pc' = [pc EXCEPT ![r] = "pipeline"]
                     /\ UNCHANGED exc
                ELSE /\ Raise(r, OtherException("read_heif"))
                     /\ UNCHANGED fs
           ELSE IF ~Exists(src)
                THEN /\ Raise(r, OtherException("FileNotFoundError"))
                     /\ UNCHANGED fs
                ELSE IF src = dst
                THEN /\ Raise(r, OtherException("SameFileError"))
                     /\ UNCHANGED fs
                ELSE /\ fs' = Written(dst, fs[src])
                     /\ pc' = [pc EXCEPT ![r] = "pipeline"]
                     /\ UNCHANGED exc
    /\ UNCHANGED <<static_vars, harness_vars, output_logs, file, pipeline_locals, response>>

\* run_ocr_pipeline up to and including step 1: the models check, crop_card,
\* save_plotted_image (cv2.imwrite may write nothing), the card-not-found check
DetectCard(r, card_boxes) ==
    /\ pc[r] = "pipeline"
    /\ LET image_path == temp_file_path(r)
       IN  IF ~models_loaded
           THEN /\ Raise(r, HTTPException(503, "Models are not loaded"))
                /\ UNCHANGED <<output_logs, cropped_card>>
           ELSE IF ~(Exists(image_path) /\ fs[image_path].format = "raster")
           THEN /\ Raise(r, HTTPException(400, "Could not detect an ID card"))
                /\ UNCHANGED <<output_logs, cropped_card>>
           ELSE \E boxes \in card_boxes, written \in BOOLEAN :
                LET crop == crop_card(ImgShape.h, ImgShape.w, boxes)
                IN  /\ output_logs' = IF written THEN output_logs \cup {Artifact(image_path, "1_card_detection.jpg")} ELSE output_logs
                    /\ IF crop.h * crop.w = 0
                       THEN /\ Raise(r, HTTPException(400, "Could not detect an ID card"))
                            /\ UNCHANGED cropped_card
                       ELSE /\ cropped_card' = [cropped_card EXCEPT ![r] = [owner |-> fs[image_path].owner, h |-> crop.h, w |-> crop.w]]
                            /\ pc' = [pc EXCEPT ![r] = "detect"]
                            /\ UNCHANGED exc
    /\ UNCHANGED <<static_vars, harness_vars, fs, file, text_fields, raw_text_data, final_entities, ocr_calls, response>>

\* step 2: detect_text_fields and save_plotted_image
DetectFields(r, raw_inputs) ==
    /\ pc[r] = "detect"
    /\ \E raw \in raw_inputs, written \in BOOLEAN :
        /\ text_fields' = [text_fields EXCEPT ![r] = detect_text_fields(raw)]
        /\ output_logs' = IF written THEN output_logs \cup {Artifact(temp_file_path(r), "2_text_detections.jpg")} ELSE output_logs
    /\ pc' = [pc EXCEPT ![r] = "read"]
    /\ UNCHANGED <<static_vars, harness_vars, fs, file, cropped_card, raw_text_data, final_entities, ocr_calls, exc, response>>

\* step 3: read_text_from_fields
ReadText(r, tesseract_outputs, easyocr_outputs) ==
    /\ pc[r] = "read"
    /\ \E outs \in [1..Len(text_fields[r]) -> IF variant = "heic" THEN tesseract_outputs ELSE easyocr_outputs] :
        LET res == read_text_from_fields(variant, cropped_card[r], text_fields[r], outs, Len(text_fields[r]))
        IN  /\ raw_text_data' = [raw_text_data EXCEPT ![r] = res.extracted_data]
            /\ ocr_calls' = [ocr_calls EXCEPT ![r] = res.calls]
    /\ pc' = [pc EXCEPT ![r] = "map"]
    /\ UNCHANGED <<static_vars, harness_vars, fs, output_logs, file, cropped_card, text_fields, final_entities, exc, response>>

\* step 4, the JSON snapshot (open/json.dump may raise OSError) and the return
MapEntities(r) ==
    /\ pc[r] = "map"
    /\ LET entities == map_entities(variant, raw_text_data[r])
       IN  /\ final_entities' = [final_entities EXCEPT ![r] = entities]
           /\ \E dumped \in BOOLEAN :
                IF dumped
                THEN /\ output_logs' = output_logs \cup {Artifact(temp_file_path(r), "data.json")}
                     /\ response' = [response EXCEPT ![r] = [status_code |-> 200, returned |-> TRUE, body |-> entities]]
                     /\ pc' = [pc EXCEPT ![r] = ExistsPc[1]]
                     /\ UNCHANGED exc
                ELSE /\ Raise(r, OtherException("OSError"))
                     /\ UNCHANGED <<output_logs, response>>
    /\ UNCHANGED <<static_vars, harness_vars, fs, file, cropped_card, text_fields, raw_text_data, ocr_calls>>

\* the except clauses
HandleException(r) ==
    /\ pc[r] = "except"
    /\ response' = [response EXCEPT ![r] = [status_code |-> HandlerStatus(variant, exc[r]), returned |-> FALSE, body |-> EmptyDict]]
    /\ pc' = [pc EXCEPT ![r] = ExistsPc[1]]
    /\ UNCHANGED <<static_vars, harness_vars, fs, output_logs, file, pipeline_locals, exc>>

\* finally: if os.path.exists(path)
FinallyExists(r) ==
    /\ \E k \in 1..Len(cleanup_paths(r)) :
        /\ pc[r] = ExistsPc[k]
        /\ pc' = [pc EXCEPT ![r] = IF Exists(cleanup_paths(r)[k]) THEN RemovePc[k] ELSE AfterCleanup(r, k)]
    /\ UNCHANGED <<static_vars, harness_vars, fs, output_logs, request_vars>>

\* finally: os.remove(path); a FileNotFoundError raised here replaces the outcome
FinallyRemove(r) ==
    /\ \E k \in 1..Len(cleanup_paths(r)) :
        /\ pc[r] = RemovePc[k]
        /\ IF Exists(cleanup_paths(r)[k])
           THEN /\ fs' = Removed(cleanup_paths(r)[k])
                /\ pc' = [pc EXCEPT ![r] = AfterCleanup(r, k)]
                /\ UNCHANGED <<exc, response>>
           ELSE /\ exc' = [exc EXCEPT ![r] = OtherException("FileNotFoundError")]
                /\ response' = [response EXCEPT ![r] = [status_code |-> 500, returned |-> FALSE, body |-> EmptyDict]]
                /\ pc' = [pc EXCEPT ![r] = "done"]
                /\ UNCHANGED fs
    /\ UNCHANGED <<static_vars, harness_vars, output_logs, file, pipeline_locals>>

\* the response has been sent and the handler's frame is gone
Retire(r) ==
    /\ pc[r] = "done"
    /\ pc' = [pc EXCEPT ![r] = "idle"]
    /\ file' = [file EXCEPT ![r] = NoUpload]
    /\ cropped_card' = [cropped_card EXCEPT ![r] = NoCrop]
    /\ text_fields' = [text_fields EXCEPT ![r] = <<>>]
    /\ raw_text_data' = [raw_text_data EXCEPT ![r] = EmptyDict]
    /\ final_entities' = [final_entities EXCEPT ![r] = EmptyDict]
    /\ ocr_calls' = [ocr_calls EXCEPT ![r] = <<>>]
    /\ exc' = [exc EXCEPT ![r] = NoExc]
    /\ response' = [response EXCEPT ![r] = NoResponse]
    /\ UNCHANGED <<static_vars, harness_vars, fs, output_logs>>

\* ------------------------------------------------------------------ inputs

StringsUpTo(alphabet, n) == UNION {[1..k -> alphabet] : k \in 0..n}

\* what the card detector may return: nothing, one box inside the image, one box
\* beyond the right edge (clips to zero area), two boxes of equal confidence of which
\* the first has zero width
CardBoxInputs ==
    { <<>>,
      <<[box |-> <<1, 1, 5, 3>>, confidence |-> 2]>>,
      <<[box |-> <<6, 0, 8, 4>>, confidence |-> 2]>>,
      <<[box |-> <<2, 1, 2, 3>>, confidence |-> 1], [box |-> <<0, 0, 6, 4>>, confidence |-> 1]>>,
      <<[box |-> <<2, 1, 2, 3>>, confidence |-> 1], [box |-> <<0, 0, 6, 4>>, confidence |-> 2]>> }

\* what the field detector may return on a crop
PipelineRawInputs ==
    { <<>>,
      <<[box |-> <<0, 0, 3, 1>>, confidence |-> 2, label |-> "id_card"]>>,
      <<[box |-> <<0, 1, 2, 2>>, confidence |-> 1, label |-> "religion"],
        [box |-> <<0, 0, 3, 1>>, confidence |-> 2, label |-> "id_card"]>>,
      <<[box |-> <<1, 1, 1, 2>>, confidence |-> 2, label |-> "first_name_en"],
        [box |-> <<2, 1, 4, 2>>, confidence |-> 1, label |-> "first_name_th"]>>,
      <<[box |-> <<0, 1, 2, 2>>, confidence |-> 1, label |-> "date_of_birth_en"],
        [box |-> <<0, 0, 3, 1>>, confidence |-> 2, label |-> "date_of_birth_th"],
        [box |-> <<2, 1, 4, 2>>, confidence |-> 2, label |-> "date_of_birth_en"]>>,
      <<[box |-> <<0, 0, 3, 1>>, confidence |-> 1, label |-> "en_name"]>> }

\* what pytesseract.image_to_string may return for a region
TesseractOutputs ==
    { <<>>, <<"\n", "\f">>, <<"1", "-", "2", "\n", "\f">>, <<"M", " ", "J", "\n", "D">> }

\* what reader.readtext(region, detail=0) may return for a region
EasyOcrOutputs ==
    { <<>>, << <<"1", "2">> >>, << <<"A">>, <<"B">> >>, << <<"A", "\n", "C">> >> }

\* raw field detections for the study of detect_text_fields
FieldBoxes == { <<30, 50, 40, 60>>, <<5, 50, 20, 60>>, <<0, 10, 20, 20>> }
FieldLabels == {"id_card", "religion", "first_name_en"}
RawDetection == [box : FieldBoxes, confidence : 1..MaxConf, label : FieldLabels]
RawDetections == StringsUpTo(RawDetection, MaxRaw)

\* "1 2340 567-89\n"
ExampleIdCard == <<"1", " ", "2", "3", "4", "0", " ", "5", "6", "7", "-", "8", "9", "\n">>
\* "MR JOHN VAN DAMME"
ExampleEnName == <<"M", "R", " ", "J", "O", "H", "N", " ", "V", "A", "N", " ", "D", "A", "M", "M", "E">>
\* "JOHN"
ExampleShortName == <<"J", "O", "H", "N">>

IdTexts == StringsUpTo({"1", "2", " ", "-", "\n"}, MaxIdLen) \cup {ExampleIdCard}
NameTexts == StringsUpTo({"A", "B", " "}, MaxNameLen) \cup {ExampleEnName, ExampleShortName}
OtherTexts == { <<>>, <<" ", "7", " ">>, <<"A", "\n", "B">> }

\* RawTextMaps for the study of map_entities
RawTextMaps ==
    { ("id_card" :> t) : t \in IdTexts }
    \cup { ("en_name" :> t) : t \in NameTexts }
    \cup [{"id_card", "en_name", "religion"} -> OtherTexts \cup {ExampleShortName, <<"M", " ", "J", " ", "D">>}]
    \cup [{"religion", "first_name_th"} -> OtherTexts]
    \cup {EmptyDict}

\* uploads of the concurrent study: well-formed images under distinct or equal names
ConcurrentFiles ==
    { [filename |-> "card.jpg", format |-> "raster"], [filename |-> "card.heic", format |-> "heif"] }

\* detector and backend outputs of the concurrent study: a card, one field, one text
ConcurrentCardBoxes == { <<[box |-> <<1, 1, 5, 3>>, confidence |-> 2]>> }
ConcurrentRawInputs == { <<[box |-> <<0, 0, 3, 1>>, confidence |-> 2, label |-> "id_card"]>> }
ConcurrentTesseractOutputs == { <<"1", "2", "\n", "\f">> }
ConcurrentEasyOcrOutputs == { << <<"1", "2">> >> }

NotReturned == [returned |-> FALSE, value |-> <<>>]

\* ------------------------------------------------------------------ specifications

InitRequests ==
    /\ fs = <<>>
    /\ output_logs = {}
    /\ pc = [r \in Requests |-> "idle"]
    /\ file = [r \in Requests |-> NoUpload]
    /\ cropped_card = [r \in Requests |-> NoCrop]
    /\ text_fields = [r \in Requests |-> <<>>]
    /\ raw_text_data = [r \in Requests |-> EmptyDict]
    /\ final_entities = [r \in Requests |-> EmptyDict]
    /\ ocr_calls = [r \in Requests |-> <<>>]
    /\ exc = [r \in Requests |-> NoExc]
    /\ response = [r \in Requests |-> NoResponse]

NoHarness ==
    /\ fn_name = "none"
    /\ fn_arg = <<>>
    /\ fn_ret = NotReturned

\* one server process: the handler is a coroutine that never awaits, so the event
\* loop runs each request to completion before the next one starts
Init ==
    /\ variant \in Variants
    /\ models_loaded \in BOOLEAN
    /\ InitRequests
    /\ NoHarness

NoOtherInFlight(r) == \A q \in Requests \ {r} : pc[q] = "idle"

BeginAlone(r) == NoOtherInFlight(r) /\ Begin(r, Files)

Step(r) ==
    \/ SaveUpload(r)
    \/ StageImage(r)
    \/ DetectCard(r, CardBoxInputs)
    \/ DetectFields(r, PipelineRawInputs)
    \/ ReadText(r, TesseractOutputs, EasyOcrOutputs)
    \/ MapEntities(r)
    \/ HandleException(r)
    \/ FinallyExists(r)
    \/ FinallyRemove(r)
    \/ Retire(r)

Next == \E r \in Requests : BeginAlone(r) \/ Step(r)

Spec == Init /\ [][Next]_vars

\* several worker processes of the heic variant share temp_uploads/: their requests interleave
InitConcurrent ==
    /\ variant = "heic"
    /\ models_loaded = TRUE
    /\ InitRequests
    /\ NoHarness

StepConcurrent(r) ==
    \/ Begin(r, ConcurrentFiles)
    \/ SaveUpload(r)
    \/ StageImage(r)
    \/ DetectCard(r, ConcurrentCardBoxes)
    \/ DetectFields(r, ConcurrentRawInputs)
    \/ ReadText(r, ConcurrentTesseractOutputs, ConcurrentEasyOcrOutputs)
    \/ MapEntities(r)
    \/ HandleException(r)
    \/ FinallyExists(r)
    \/ FinallyRemove(r)
    \/ Retire(r)

\* the two requests that are processed concurrently
ConcurrentRequests == {1, 2}

NextConcurrent == \E r \in ConcurrentRequests : StepConcurrent(r)

SpecConcurrent == InitConcurrent /\ [][NextConcurrent]_vars

\* detect_text_fields (the same text in both files) on every bounded list of raw detections
InitFields ==
    /\ variant = "easyocr"
    /\ models_loaded = TRUE
    /\ InitRequests
    /\ fn_name = "detect_text_fields"
    /\ fn_arg \in RawDetections
    /\ fn_ret = NotReturned

CallDetectTextFields ==
    /\ fn_name = "detect_text_fields"
    /\ ~fn_ret.returned
    /\ fn_ret' = [returned |-> TRUE, value |-> detect_text_fields(fn_arg)]
    /\ UNCHANGED <<static_vars, fs, output_logs, pc, request_vars, fn_name, fn_arg>>

NextFields == CallDetectTextFields

SpecFields == InitFields /\ [][NextFields]_vars

\* map_entities of the heic variant on every bounded RawTextMap
InitMap ==
    /\ variant = "heic"
    /\ models_loaded = TRUE
    /\ InitRequests
    /\ fn_name = "map_entities"
    /\ fn_arg \in RawTextMaps
    /\ fn_ret = NotReturned

CallMapEntities ==
    /\ fn_name = "map_entities"
    /\ ~fn_ret.returned
    /\ fn_ret' = [returned |-> TRUE, value |-> map_entities(variant, fn_arg)]
    /\ UNCHANGED <<static_vars, fs, output_logs, pc, request_vars, fn_name, fn_arg>>

NextMap == CallMapEntities

SpecMap == InitMap /\ [][NextMap]_vars

\* ------------------------------------------------------------------ properties

Reported(r) == response[r].status_code # 0

\* C1: the failure reported to the caller is the one the pipeline raised: a
\* card-not-found HTTPException(400) is reported as 400, a models-not-loaded
\* HTTPException(503) as 503, never as 500, and no EntityMap is returned.
C1_ReportedAsRaised ==
    \A r \in Requests :
        (Reported(r) /\ exc[r].type = "HTTPException") =>
            /\ response[r].status_code = exc[r].status_code
            /\ ~response[r].returned

\* C2: detect_text_fields returns exactly one detection per distinct label of its
\* input, and the one kept for a label is the first raw detection of that label that
\* has the label's maximum confidence.
LabelsOf(dets) == {dets[i].label : i \in 1..Len(dets)}

FirstBest(raw, label) ==
    CHOOSE i \in 1..Len(raw) :
        /\ raw[i].label = label
        /\ \A j \in 1..Len(raw) :
            raw[j].label = label =>
                \/ raw[j].confidence < raw[i].confidence
                \/ (raw[j].confidence = raw[i].confidence /\ j >= i)

C2_OnePerLabelFirstMax ==
    (fn_name = "detect_text_fields" /\ fn_ret.returned) =>
        LET out == fn_ret.value
        IN  /\ LabelsOf(out) = LabelsOf(fn_arg)
            /\ Len(out) = Cardinality(LabelsOf(fn_arg))
            /\ \A i \in 1..Len(out) : out[i] = fn_arg[FirstBest(fn_arg, out[i].label)]

\* two raw detections of one label tie at the label's maximum with different boxes,
\* and the earlier one is in the output
C2_Witness ==
    /\ fn_name = "detect_text_fields"
    /\ fn_ret.returned
    /\ \E i, j \in 1..Len(fn_arg) :
        /\ i < j
        /\ fn_arg[i].label = fn_arg[j].label
        /\ fn_arg[i].confidence = fn_arg[j].confidence
        /\ fn_arg[i].box # fn_arg[j].box
        /\ \A k \in 1..Len(fn_arg) : fn_arg[k].label = fn_arg[i].label => fn_arg[k].confidence <= fn_arg[i].confidence
        /\ \E k \in 1..Len(fn_ret.value) : fn_ret.value[k] = fn_arg[i]

\* C3: the output of detect_text_fields is ordered by (y1 ascending, then x1
\* ascending): every adjacent pair (a, b) has a.y1 < b.y1, or a.y1 = b.y1 and a.x1 <= b.x1.
C3_ReadingOrder ==
    (fn_name = "detect_text_fields" /\ fn_ret.returned) =>
        \A i \in 1..(Len(fn_ret.value) - 1) :
            LET a == fn_ret.value[i].box
                b == fn_ret.value[i + 1].box
            IN  a[2] < b[2] \/ (a[2] = b[2] /\ a[1] <= b[1])

\* boxes with (y1, x1) = (50, 30), (50, 5), (10, 0) come out as (10, 0), (50, 5), (50, 30)
C3_Witness ==
    /\ fn_name = "detect_text_fields"
    /\ fn_ret.returned
    /\ Len(fn_arg) = 3
    /\ Cardinality(LabelsOf(fn_arg)) = 3
    /\ <<fn_arg[1].box, fn_arg[2].box, fn_arg[3].box>> = << <<30, 50, 40, 60>>, <<5, 50, 20, 60>>, <<0, 10, 20, 20>> >>
    /\ Len(fn_ret.value) = 3
    /\ <<fn_ret.value[1].box, fn_ret.value[2].box, fn_ret.value[3].box>> = << <<0, 10, 20, 20>>, <<5, 50, 20, 60>>, <<30, 50, 40, 60>> >>

MapReturned == fn_name = "map_entities" /\ fn_ret.returned

DigitPositions(t) == {i \in 1..Len(t) : t[i] \in Digits}

\* C4, as the claim states it: the id_card value is exactly the digits of the input,
\* in order, every other character removed.
C4_IdCardDigitsOnly ==
    (MapReturned /\ "id_card" \in DOMAIN fn_arg) =>
        /\ "id_card" \in DOMAIN fn_ret.value
        /\ fn_ret.value["id_card"] = SelectSeq(fn_arg["id_card"], LAMBDA c : c \in Digits)

\* C4, amended: the id_card value is made of the digits and the whitespace of the
\* input that lie between its first and its last digit, in order, every other
\* character removed (empty when the input has no digit).
C4_IdCardDigitsAndInnerWhitespace ==
    (MapReturned /\ "id_card" \in DOMAIN fn_arg) =>
        LET t == fn_arg["id_card"]
            pos == DigitPositions(t)
            lo == CHOOSE i \in pos : \A j \in pos : i <= j
            hi == CHOOSE i \in pos : \A j \in pos : j <= i
        IN  /\ "id_card" \in DOMAIN fn_ret.value
            /\ fn_ret.value["id_card"] =
                  IF pos = {} THEN <<>>
                  ELSE SelectSeq(SubSeq(t, lo, hi), LAMBDA c : c \in Digits \cup Whitespace)

\* "1 2340 567-89\n" gives "1 2340 56789"
C4_Witness ==
    /\ MapReturned
    /\ fn_arg = ("id_card" :> ExampleIdCard)
    /\ fn_ret.value = ("id_card" :> <<"1", " ", "2", "3", "4", "0", " ", "5", "6", "7", "8", "9">>)

\* the tokens of a string, stated without split(): token k starts at the k-th
\* position that holds a non-whitespace character and follows whitespace or nothing
TokenStarts(s) == {i \in 1..Len(s) : s[i] \notin Whitespace /\ (i = 1 \/ s[i - 1] \in Whitespace)}

TokenEnd(s, i) == CHOOSE j \in i..Len(s) : (j = Len(s) \/ s[j + 1] \in Whitespace) /\ \A k \in i..j : s[k] \notin Whitespace

Token(s, k) ==
    LET st == CHOOSE i \in TokenStarts(s) : Cardinality({j \in TokenStarts(s) : j < i}) = k - 1
    IN  SubSeq(s, st, TokenEnd(s, st))

NumTokens(s) == Cardinality(TokenStarts(s))

\* v is the tokens from..NumTokens(s) of s joined by single spaces
IsJoinOfTokensFrom(v, s, from) ==
    /\ NumTokens(v) = NumTokens(s) - from + 1
    /\ \A k \in 1..NumTokens(v) : Token(v, k) = Token(s, k + from - 1)
    /\ \A i \in 1..Len(v) : v[i] \in Whitespace => (v[i] = " " /\ i > 1 /\ i < Len(v) /\ v[i + 1] \notin Whitespace)

\* C5: with an en_name entry of at least 3 whitespace-separated tokens the result has
\* en_prefix = token 1, en_firstname = token 2, en_lastname = the other tokens joined
\* by single spaces, and no en_name_raw; with fewer tokens it has en_name_raw = the raw
\* string and none of the three; it never has an en_name key.
C5_EnNameSplit ==
    (MapReturned /\ "en_name" \in DOMAIN fn_arg) =>
        LET s == fn_arg["en_name"]
            out == fn_ret.value
        IN  /\ "en_name" \notin DOMAIN out
            /\ IF NumTokens(s) >= 3
               THEN /\ {"en_prefix", "en_firstname", "en_lastname"} \subseteq DOMAIN out
                    /\ "en_name_raw" \notin DOMAIN out
                    /\ out["en_prefix"] = Token(s, 1)
                    /\ out["en_firstname"] = Token(s, 2)
                    /\ IsJoinOfTokensFrom(out["en_lastname"], s, 3)
               ELSE /\ "en_name_raw" \in DOMAIN out
                    /\ out["en_name_raw"] = s
                    /\ {"en_prefix", "en_firstname", "en_lastname"} \cap DOMAIN out = {}

\* "MR JOHN VAN DAMME" gives MR / JOHN / "VAN DAMME"
C5_Witness ==
    /\ MapReturned
    /\ fn_arg = ("en_name" :> ExampleEnName)
    /\ fn_ret.value = ("en_prefix" :> <<"M", "R">>) @@ ("en_firstname" :> <<"J", "O", "H", "N">>) @@ ("en_lastname" :> <<"V", "A", "N", " ", "D", "A", "M", "M", "E">>)

\* C6: no value of a returned EntityMap holds a newline or a form feed.
C6_NoNewlineOrFormFeed ==
    \A r \in Requests :
        response[r].returned =>
            \A key \in DOMAIN response[r].body :
                \A i \in 1..Len(response[r].body[key]) : response[r].body[key][i] \notin {"\n", "\f"}

\* C7: with the models loaded and a card detected, the request ends in success and
\* returns the mapped EntityMap, whatever happens to the debug writes.
C7_DebugFailureDoesNotAbort ==
    \A r \in Requests :
        (pc[r] = "done" /\ models_loaded /\ cropped_card[r].h > 0) =>
            /\ response[r].status_code = 200
            /\ response[r].returned
            /\ response[r].body = final_entities[r]

\* the label-to-language table as the claim states it
ClaimedLang(label) ==
    IF label \in {"prefix_name_th", "first_name_th", "last_name_th", "religion", "date_of_birth_th", "date_of_expity_th"} THEN "th"
    ELSE IF label \in {"prefix_name_en", "first_name_en", "last_name_en", "date_of_birth_en", "date_of_expity_en"} THEN "en"
    ELSE "th+en"

\* C8: every call of the OCR backend gets the language the table gives for the
\* field's label.
C8_LangByLabel ==
    \A r \in Requests :
        \A i \in 1..Len(ocr_calls[r]) : ocr_calls[r][i][2] = ClaimedLang(ocr_calls[r][i][1])

\* C9: in the heic variant every request stages its image at temp_image.png, and
\* the pipeline reads whatever that path holds when it gets there.
C9_SharedFixedPath ==
    [][\A r \in ConcurrentRequests :
        /\ (pc[r] = "stage" /\ pc'[r] = "pipeline") =>
              /\ "temp_image.png" \in DOMAIN fs'
              /\ fs'["temp_image.png"].owner = fs[file[r].filename].owner
        /\ (pc[r] = "pipeline" /\ pc'[r] = "detect") =>
              cropped_card'[r].owner = fs["temp_image.png"].owner]_vars

\* the race: request r has run its pipeline on the image of request q, uploaded
\* under another name, and q, about to read, finds temp_image.png removed
C9_Witness ==
    \E r, q \in ConcurrentRequests :
        /\ r # q
        /\ file[r].filename # file[q].filename
        /\ cropped_card[r].owner = q
        /\ pc[q] = "pipeline"
        /\ ~Exists("temp_image.png")

\* the temporary files staged for request r
StagedPaths(r) == {file[r].filename} \cup (IF variant = "heic" THEN {"temp_image.png"} ELSE {})

\* C10: when a request handled alone has finished, on whichever exit path, none of
\* the temporary files staged for it exists.
C10_TempFilesReleased ==
    \A r \in Requests :
        (pc[r] = "done" /\ NoOtherInFlight(r)) => \A path \in StagedPaths(r) : ~Exists(path)

\* a heic-variant request that failed on the JSON snapshot, after both files were staged
C10_Witness ==
    \E r \in Requests :
        /\ pc[r] = "done"
        /\ variant = "heic"
        /\ exc[r] = OtherException("OSError")
        /\ response[r].status_code = 500

====
